---- MODULE Spec2Model ----
(***************************************************************************)
(* Network topology classification and verification engine of             *)
(* byovpc-checker (src/src/checks/network.rs), with the hosted-zone checks *)
(* (src/src/checks/dns.rs) that read the same gathered data.               *)
(*                                                                         *)
(* A ClusterNetwork is built once from already gathered collections; its  *)
(* checks are pure functions of the built object.  The state is the built *)
(* object, the check a caller ran last (op) and what that check returned  *)
(* (results).  Strings are TLA+ strings; Option<T> is a sequence of       *)
(* length 0 (None) or 1 (Some).  The iteration order of a std HashMap is  *)
(* unspecified: every operator that iterates one takes the order as a     *)
(* parameter and every call draws one.                                     *)
(***************************************************************************)
EXTENDS Integers, Sequences, FiniteSets, TLC

VARIABLES
    cluster_info,               \* &MinimalClusterInfo
    all_subnets,                \* Vec<Subnet>
    routetables,                \* Vec<RouteTable>
    subnet_routetable_mapping,  \* HashMap<String, RouteTable>
    load_balancers,             \* Vec<AWSLoadBalancer>
    load_balancer_enis,         \* Vec<NetworkInterface>
    hosted_zones,               \* Vec<HostedZoneWithRecords>
    collector_tag,              \* the Tag handed to the collector
    tag_matched,                \* what match_tag returned for it (None: not called)
    op,                         \* the check that ran last ("built": none yet)
    results,                    \* the Vec<VerificationResult> it returned
    aws_responses,              \* what the AWS API answers to the gatherers' calls
    gather_result,              \* what the gathering function that ran last returned
    task_pc,                    \* position of each task spawned by gather()
    gather_pc,                  \* position of gather() itself
    cluster_data                \* the AWSClusterData gather() returned (None: none)

vars == <<cluster_info, all_subnets, routetables, subnet_routetable_mapping,
          load_balancers, load_balancer_enis, hosted_zones, collector_tag,
          tag_matched, op, results,
          aws_responses, gather_result, task_pc, gather_pc, cluster_data>>

----------------------------------------------------------------------------
(* Bounds of the explored inputs. *)

MaxTopoSubnets == 2     \* subnets of an input that varies the routes
MaxRouteTables == 2     \* route tables of an input that varies the associations
MaxTags == 2            \* tags of the subnet of an input that varies the tags
MaxCountSubnets == 6    \* subnets of an input that varies vpc and zone
MaxLoadBalancers == 2   \* load balancers of an input that varies them
MaxEnis == 2            \* network interfaces of an input that varies them
MaxHostedZones == 3     \* hosted zones of an input that varies them
MaxRemoteLoadBalancers == 2     \* load balancers of the account
MaxRemoteSubnets == 3   \* subnets of the account
MaxFailingCalls == 2    \* calls that fail while gather() runs

----------------------------------------------------------------------------
(* Program constants. *)

PRIVATE_ELB_TAG == "kubernetes.io/role/internal-elb"
PUBLIC_ELB_TAG == "kubernetes.io/role/elb"
CLUSTER_TAG == "kubernetes.io/cluster/"

DefaultCidr == "0.0.0.0/0"
IgwPrefix == "igw-"
CLUSTER_TAG_PREFIX == "kubernetes.io/cluster/"
ExpectedHostedZones == 2    \* the match arm that yields Ok
TooManyGroups == 2      \* a (vpc, zone) group is flagged when number > 2

----------------------------------------------------------------------------
(* Option<T>, and the str methods the checks use. *)

None == <<>>
Some(x) == <<x>>
IsSome(o) == Len(o) = 1
Unwrap(o) == o[1]

\* str::contains: pat occurs in s as a contiguous substring.
Contains(s, pat) ==
    \E i \in 0..(Len(s) - Len(pat)) : SubSeq(s, i + 1, i + Len(pat)) = pat

\* str::starts_with
StartsWith(s, pat) == Len(s) >= Len(pat) /\ SubSeq(s, 1, Len(pat)) = pat

\* Vec::contains
VecContains(v, x) == \E i \in 1..Len(v) : v[i] = x

RECURSIVE Join(_, _)
\* [String]::join(sep)
Join(v, sep) ==
    IF Len(v) = 0 THEN ""
    ELSE IF Len(v) = 1 THEN v[1]
    ELSE v[1] \o sep \o Join(Tail(v), sep)

RECURSIVE Flatten(_)
\* Vec::extend over a sequence of result lists
Flatten(vs) == IF Len(vs) = 0 THEN <<>> ELSE Head(vs) \o Flatten(Tail(vs))

RECURSIVE SeqsUpTo(_, _)
\* All sequences over S of length at most n.
SeqsUpTo(S, n) ==
    IF n = 0 THEN {<<>>}
    ELSE LET shorter == SeqsUpTo(S, n - 1)
         IN  shorter \cup {Append(q, x) : q \in {r \in shorter : Len(r) = n - 1}, x \in S}

\* The orders in which a HashMap with key set K may be iterated.
Orders(K) ==
    {q \in SeqsUpTo(K, Cardinality(K)) :
        Len(q) = Cardinality(K) /\ \A k \in K : \E i \in 1..Len(q) : q[i] = k}

\* VerificationResult { message, severity }
Result(sev, msg) == [severity |-> sev, message |-> msg]

----------------------------------------------------------------------------
(* Resource association index: ClusterNetworkBuilder. *)

\* rtb.associations.iter().any(|a| a.iter().any(|b| b.subnet_id() == sid))
References(rtb, sid) ==
    /\ IsSome(rtb.associations)
    /\ \E i \in 1..Len(Unwrap(rtb.associations)) :
           Unwrap(rtb.associations)[i].subnet_id = sid

\* The route tables the filter keeps for one subnet, in input order.
MatchingRouteTables(subnet, rtbs) ==
    SelectSeq(rtbs, LAMBDA rtb : References(rtb, subnet.subnet_id))

\* Faulty variant: the last matching route table is kept.
derive_last_match(subnets_opt, rtbs_opt) ==
    IF ~IsSome(subnets_opt) \/ ~IsSome(rtbs_opt) THEN <<>>
    ELSE LET subnets == Unwrap(subnets_opt)
             rtbs == Unwrap(rtbs_opt)
             matched == {i \in 1..Len(subnets) :
                            Len(MatchingRouteTables(subnets[i], rtbs)) > 0}
             keys == {Unwrap(subnets[i].subnet_id) : i \in matched}
         IN  [k \in keys |->
                 LET m == MatchingRouteTables([subnet_id |-> Some(k)], rtbs)
                 IN  m[Len(m)]]

\* derive_subnet_routetable_mapping: the builder's fields are Options; a
\* later insert of an equal key overwrites the earlier one with an equal value.
derive_subnet_routetable_mapping(subnets_opt, rtbs_opt) ==
    IF ~IsSome(subnets_opt) \/ ~IsSome(rtbs_opt) THEN <<>>
    ELSE LET subnets == Unwrap(subnets_opt)
             rtbs == Unwrap(rtbs_opt)
             matched == {i \in 1..Len(subnets) :
                            Len(MatchingRouteTables(subnets[i], rtbs)) > 0}
             keys == {Unwrap(subnets[i].subnet_id) : i \in matched}
         IN  [k \in keys |->
                 Head(MatchingRouteTables([subnet_id |-> Some(k)], rtbs))]

----------------------------------------------------------------------------
(* Topology classifier. *)

\* r.destination_cidr_block.clone().is_some_and(|f| f == "0.0.0.0/0")
is_0_cidr(r) ==
    IsSome(r.destination_cidr_block) /\ Unwrap(r.destination_cidr_block) = DefaultCidr

\* Faulty variant: any default route with a gateway id makes the subnet public.
is_igw_default_any_gateway(r) == is_0_cidr(r) /\ IsSome(r.gateway_id)

\* is_0_cidr && r.gateway_id.as_ref().is_some_and(|g| g.starts_with("igw-"))
is_igw_default(r) ==
    is_0_cidr(r) /\ IsSome(r.gateway_id) /\ StartsWith(Unwrap(r.gateway_id), IgwPrefix)

\* is_0_cidr && r.nat_gateway_id.is_some()
is_nat_default(r) == is_0_cidr(r) /\ IsSome(r.nat_gateway_id)

\* for r in rs { if is_0_cidr && igw { public_subnets.push(subnet) } }
PublicPushes(subnet, rs) == [i \in 1..Len(SelectSeq(rs, is_igw_default)) |-> subnet]

\* for r in rs { if is_0_cidr && nat { private_subnets.push(subnet) } }
PrivatePushes(subnet, rs) == [i \in 1..Len(SelectSeq(rs, is_nat_default)) |-> subnet]

RECURSIVE get_public_subnets(_, _)
\* get_public_subnets, iterating the map in the given order.
get_public_subnets(mapping, order) ==
    IF Len(order) = 0 THEN <<>>
    ELSE LET subnet == Head(order)
             routes == mapping[subnet].routes
         IN  (IF IsSome(routes)
              THEN PublicPushes(subnet, Unwrap(routes))
              ELSE <<>>)
                 \o get_public_subnets(mapping, Tail(order))

RECURSIVE get_private_subnets(_, _)
\* get_private_subnets, iterating the map in the given order; the break
\* leaves the loop over the map.
get_private_subnets(mapping, order) ==
    IF Len(order) = 0 THEN <<>>
    ELSE LET subnet == Head(order)
             routes == mapping[subnet].routes
         IN  IF ~IsSome(routes)
             THEN get_private_subnets(mapping, Tail(order))
             ELSE LET rs == Unwrap(routes)
                      has_0_cidr == \E i \in 1..Len(rs) : is_0_cidr(rs[i])
                  IN  IF ~has_0_cidr
                      THEN <<subnet>>
                      ELSE PrivatePushes(subnet, rs)
                               \o get_private_subnets(mapping, Tail(order))

----------------------------------------------------------------------------
(* Network verifier: the checks of ClusterNetwork. *)

U8Modulus == 256        \* subnets_per_az counts in u8

\* configured_subnets
configured_subnets_without_fallback(ci, subnets) ==
    SelectSeq(subnets, LAMBDA subnet : VecContains(ci.subnets, Unwrap(subnet.subnet_id)))

\* configured_subnets
configured_subnets(ci, subnets) ==
    IF Len(ci.subnets) = 0 THEN subnets
    ELSE SelectSeq(subnets, LAMBDA subnet : VecContains(ci.subnets, Unwrap(subnet.subnet_id)))

\* The key of a subnet in subnets_per_az.
GroupOf(subnet) == <<Unwrap(subnet.vpc_id), Unwrap(subnet.availability_zone)>>

RECURSIVE subnets_per_az(_)
\* *subnets_per_az.entry((vpc_id, az)).or_insert(0) += 1, for every subnet
subnets_per_az(subnets) ==
    IF Len(subnets) = 0 THEN <<>>
    ELSE LET counted == subnets_per_az(SubSeq(subnets, 1, Len(subnets) - 1))
             g == GroupOf(subnets[Len(subnets)])
         IN  IF g \in DOMAIN counted
             THEN [counted EXCEPT ![g] = (@ + 1) % U8Modulus]
             ELSE counted @@ (g :> 1)

\* Faulty variant: a group is flagged from two subnets on.
is_problematic_from_two(number) == number >= TooManyGroups

\* if number > 2
is_problematic(number) == number > TooManyGroups

\* problematic_azs, pushed in the order the local map is iterated.
problematic_azs(counted, order) ==
    LET flagged == SelectSeq(order, LAMBDA g : is_problematic(counted[g]))
    IN  [i \in 1..Len(flagged) |-> <<flagged[i], counted[flagged[i]]>>]

\* format!("{} (AZ: {})", a.0 .0, a.0 .1)
FormatGroup(a) == a[1][1] \o " (AZ: " \o a[1][2] \o ")"

\* verify_number_of_subnets, iterating subnets_per_az in the given order.
verify_number_of_subnets(subnets, order) ==
    LET problematic == problematic_azs(subnets_per_az(subnets), order)
    IN  IF Len(problematic) = 0
        THEN Result("Ok", "AZs have the expected number of subnets")
        ELSE Result("Warning",
                 "There are too many subnets in the following VPC: "
                     \o Join([i \in 1..Len(problematic) |-> FormatGroup(problematic[i])], ", "))

\* The flags of one subnet before its tags are read.
InitialFlags ==
    [missing_cluster_tag |-> TRUE, incorrect_cluster_tag |-> "",
     missing_private_elb_tag |-> TRUE, missing_public_elb_tag |-> TRUE]

\* Faulty variant: a cluster tag counts only when it names this cluster.
names_cluster_tag_of_this_cluster(ci, key) ==
    Contains(key, CLUSTER_TAG \o ci.cluster_infra_name)

\* key.contains(&CLUSTER_TAG)
names_cluster_tag(ci, key) == Contains(key, CLUSTER_TAG)

\* Faulty variant: a foreign cluster tag is incorrect whatever its value.
is_incorrect_cluster_tag_any_value(ci, key, value) ==
    ~(Contains(key, ci.cluster_id) \/ Contains(key, ci.cluster_infra_name))

\* !(key.contains(cluster_id) || key.contains(cluster_infra_name)) && value == "owned"
is_incorrect_cluster_tag(ci, key, value) ==
    ~(Contains(key, ci.cluster_id) \/ Contains(key, ci.cluster_infra_name))
        /\ value = "owned"

\* The body of the loop over the tags of one subnet.
TagStep(f, tag, subnet_id, ci, private, public) ==
    IF ~(IsSome(tag.key) /\ IsSome(tag.value)) THEN f
    ELSE LET key == Unwrap(tag.key)
             value == Unwrap(tag.value)
             foreign == is_incorrect_cluster_tag(ci, key, value)
             f1 == IF names_cluster_tag(ci, key)
                   THEN [f EXCEPT !.missing_cluster_tag = FALSE,
                                  !.incorrect_cluster_tag = IF foreign THEN key ELSE @]
                   ELSE f
             f2 == IF ~VecContains(private, subnet_id)
                   THEN [f1 EXCEPT !.missing_private_elb_tag = FALSE] ELSE f1
             f3 == IF ~VecContains(public, subnet_id)
                   THEN [f2 EXCEPT !.missing_public_elb_tag = FALSE] ELSE f2
             f4 == IF VecContains(private, subnet_id) /\ Contains(key, PRIVATE_ELB_TAG)
                   THEN [f3 EXCEPT !.missing_private_elb_tag = FALSE] ELSE f3
         IN  IF VecContains(public, subnet_id) /\ Contains(key, PUBLIC_ELB_TAG)
             THEN [f4 EXCEPT !.missing_public_elb_tag = FALSE] ELSE f4

RECURSIVE TagLoop(_, _, _, _, _, _)
\* for tag in tags { ... }
TagLoop(f, tags, subnet_id, ci, private, public) ==
    IF Len(tags) = 0 THEN f
    ELSE TagLoop(TagStep(f, Head(tags), subnet_id, ci, private, public),
                 Tail(tags), subnet_id, ci, private, public)

MissingClusterTagMessage(subnet_id, ci) ==
    "Subnet " \o subnet_id \o " is missing cluster tag: "
        \o (CLUSTER_TAG \o ci.cluster_infra_name)

IncorrectClusterTagMessage(subnet_id, key) ==
    "Subnet " \o subnet_id \o " is using incorrect cluster tag: " \o key

MissingPrivateElbTagMessage(subnet_id) ==
    "Subnet " \o subnet_id \o " is missing private ELB tag"

MissingPublicElbTagMessage(subnet_id) ==
    "Subnet " \o subnet_id \o " is missing public ELB tag"

SubnetOkMessage(subnet_id) ==
    "Subnet " \o subnet_id \o " is correctly setup: expected tags are present."

\* Faulty variant: the Ok result depends on the cluster tags only.
all_tags_present_ignoring_roles(f) ==
    ~f.missing_cluster_tag /\ Len(f.incorrect_cluster_tag) = 0

\* The condition of the final push: none of the four findings applies.
all_tags_present(f) ==
    ~f.missing_cluster_tag /\ Len(f.incorrect_cluster_tag) = 0
        /\ ~f.missing_public_elb_tag /\ ~f.missing_private_elb_tag

\* The results verify_subnet_tags pushes for one subnet.
SubnetTagResults(subnet, ci, private, public) ==
    LET subnet_id == Unwrap(subnet.subnet_id)
        f == TagLoop(InitialFlags, subnet.tags, subnet_id, ci, private, public)
        has_incorrect_cluster_tag == Len(f.incorrect_cluster_tag) > 0
    IN  (IF f.missing_cluster_tag
         THEN <<Result("Info", MissingClusterTagMessage(subnet_id, ci))>> ELSE <<>>)
        \o (IF has_incorrect_cluster_tag
            THEN <<Result("Critical",
                       IncorrectClusterTagMessage(subnet_id, f.incorrect_cluster_tag))>>
            ELSE <<>>)
        \o (IF f.missing_private_elb_tag
            THEN <<Result("Info", MissingPrivateElbTagMessage(subnet_id))>> ELSE <<>>)
        \o (IF f.missing_public_elb_tag
            THEN <<Result("Info", MissingPublicElbTagMessage(subnet_id))>> ELSE <<>>)
        \o (IF all_tags_present(f)
            THEN <<Result("Ok", SubnetOkMessage(subnet_id))>> ELSE <<>>)

\* verify_subnet_tags, iterating subnet_routetable_mapping in the given order.
verify_subnet_tags(subnets, mapping, order, ci) ==
    LET private == get_private_subnets(mapping, order)
        public == get_public_subnets(mapping, order)
    IN  Flatten([i \in 1..Len(subnets) |->
                    SubnetTagResults(subnets[i], ci, private, public)])

\* verify_subnet_routetables
verify_subnet_routetables(ci) ==
    IF Len(ci.subnets) /= 0
    THEN <<Result("Ok", "The cluster is BYOVPC - will not check routetables for subnets")>>
    ELSE <<>>

\* The Warnings one load balancer contributes to verify_loadbalancer_subnets.
LoadBalancerWarnings(alb, configured_subnet_ids) ==
    IF alb.kind /= "ModernLoadBalancer" THEN <<>>
    ELSE LET off == SelectSeq(alb.availability_zones,
                        LAMBDA az : Unwrap(az.subnet_id) \notin configured_subnet_ids)
         IN  [i \in 1..Len(off) |->
                 Result("Warning",
                     "LoadBalancer " \o Unwrap(alb.load_balancer_arn)
                         \o " is using subnet " \o Unwrap(off[i].zone_name)
                         \o " (AZ: " \o Unwrap(off[i].subnet_id)
                         \o ") that is not configured for this cluster.")]

\* verify_loadbalancer_subnets
verify_loadbalancer_subnets(ci, subnets, lbs) ==
    LET configured == configured_subnets(ci, subnets)
        configured_subnet_ids == {Unwrap(configured[i].subnet_id) : i \in 1..Len(configured)}
        warnings == Flatten([i \in 1..Len(lbs) |->
                                LoadBalancerWarnings(lbs[i], configured_subnet_ids)])
    IN  IF Len(warnings) = 0
        THEN <<Result("Ok", "LoadBalancer subnet associations are correct")>>
        ELSE warnings

\* The result one network interface contributes.
EniResults(eni, configured_subnet_ids) ==
    IF ~IsSome(eni.subnet_id) THEN <<>>
    ELSE IF Unwrap(eni.subnet_id) \notin configured_subnet_ids
         THEN <<Result("Warning",
                    "LoadBalancer ENI " \o Unwrap(eni.network_interface_id)
                        \o " is using a non-cluster subnet: " \o Unwrap(eni.subnet_id))>>
         ELSE <<Result("Ok",
                    "LoadBalancer ENI " \o Unwrap(eni.network_interface_id)
                        \o " is using cluster subnet: " \o Unwrap(eni.subnet_id))>>

\* verify_loadbalancer_eni_subnets
verify_loadbalancer_eni_subnets(ci, subnets, enis) ==
    IF Len(enis) = 0 THEN <<Result("Critical", "No ENIs found")>>
    ELSE LET configured == configured_subnets(ci, subnets)
             configured_subnet_ids ==
                 {Unwrap(configured[i].subnet_id) : i \in 1..Len(configured)}
         IN  Flatten([i \in 1..Len(enis) |-> EniResults(enis[i], configured_subnet_ids)])

\* Faulty variant: the tag results are appended before the load-balancer results.
verify_tags_first(ci, subnets, mapping, order, lbs, enis, count_order) ==
    <<verify_number_of_subnets(subnets, count_order)>>
        \o verify_subnet_tags(subnets, mapping, order, ci)
        \o verify_loadbalancer_subnets(ci, subnets, lbs)
        \o verify_loadbalancer_eni_subnets(ci, subnets, enis)

\* impl Verifier for ClusterNetwork: verify
verify(ci, subnets, mapping, order, lbs, enis, count_order) ==
    <<verify_number_of_subnets(subnets, count_order)>>
        \o verify_loadbalancer_subnets(ci, subnets, lbs)
        \o verify_subnet_tags(subnets, mapping, order, ci)
        \o verify_loadbalancer_eni_subnets(ci, subnets, enis)

----------------------------------------------------------------------------
(* HostedZoneChecks (src/src/checks/dns.rs). *)

\* get_resource_record_targets: (record name, alias target) of every record
\* that has an alias target, over the zones in order.
get_resource_record_targets(zones) ==
    LET resource_record_sets == Flatten([i \in 1..Len(zones) |-> zones[i].resource_records])
        aliased == SelectSeq(resource_record_sets, LAMBDA r : IsSome(r.alias_target))
    IN  [i \in 1..Len(aliased) |->
            <<aliased[i].name, Unwrap(aliased[i].alias_target).dns_name>>]

\* get_load_balancer_names: dns_name.clone().unwrap_or("".to_string())
get_load_balancer_names(lbs) ==
    [i \in 1..Len(lbs) |-> IF IsSome(lbs[i].dns_name) THEN Unwrap(lbs[i].dns_name) ELSE ""]

\* Faulty variant: one hosted zone is enough.
verify_number_of_hosted_zones_from_one(zones) ==
    IF Len(zones) = 0
    THEN Result("Critical", "Too few hosted zones found: " \o ToString(Len(zones)))
    ELSE IF Len(zones) <= ExpectedHostedZones
         THEN Result("Ok", "Expected number of hosted zones found: 2")
         ELSE Result("Critical", "Too many hosted zones found: " \o ToString(Len(zones)))

\* verify_number_of_hosted_zones
verify_number_of_hosted_zones(zones) ==
    IF Len(zones) \in {0, 1}
    THEN Result("Critical", "Too few hosted zones found: " \o ToString(Len(zones)))
    ELSE IF Len(zones) = ExpectedHostedZones
         THEN Result("Ok", "Expected number of hosted zones found: 2")
         ELSE Result("Critical", "Too many hosted zones found: " \o ToString(Len(zones)))

\* The result verify_load_balancers_are_used pushes for one name.
LoadBalancerUseResult(lb, resource_targets) ==
    LET using == SelectSeq(resource_targets, LAMBDA t : Contains(t[2], lb))
    IN  IF Len(using) = 0
        THEN Result("Warning",
                 "LoadBalancer '" \o lb \o "' is not being used in any hosted zone")
        ELSE Result("Ok", "LoadBalancer " \o lb \o " is used in record " \o using[1][1])

\* verify_load_balancers_are_used
verify_load_balancers_are_used(zones, lbs) ==
    LET resource_targets == get_resource_record_targets(zones)
        load_balancer_names == get_load_balancer_names(lbs)
    IN  [i \in 1..Len(load_balancer_names) |->
            LoadBalancerUseResult(load_balancer_names[i], resource_targets)]

\* verify_only_known_load_balancers_are_used
verify_only_known_load_balancers_are_used(zones, lbs) ==
    LET resource_targets == get_resource_record_targets(zones)
        load_balancer_names == get_load_balancer_names(lbs)
        unknown == SelectSeq(resource_targets,
                       LAMBDA t : ~\E i \in 1..Len(load_balancer_names) :
                                       Contains(t[2], load_balancer_names[i]))
    IN  [i \in 1..Len(unknown) |->
            Result("Warning",
                "ResourceRecord '" \o unknown[i][1]
                    \o "' is using a LoadBalancer not associated with the cluster: "
                    \o unknown[i][2])]

\* impl Verifier for HostedZoneChecks: verify
hosted_zone_checks_verify(zones, lbs) ==
    verify_load_balancers_are_used(zones, lbs)
        \o <<verify_number_of_hosted_zones(zones)>>
        \o verify_only_known_load_balancers_are_used(zones, lbs)

----------------------------------------------------------------------------
(* The tag collector of conventional clusters
   (src/src/gatherer/aws/shared_types.rs). *)

\* Faulty variant: only the value owned is accepted.
DefaultCollector_match_tag_owned_only(cluster_id, cluster_infra_name, t) ==
    LET cluster_id_tag == CLUSTER_TAG_PREFIX \o cluster_id
        cluster_name_tag == CLUSTER_TAG_PREFIX \o cluster_infra_name
    IN  /\ IsSome(t.key)
        /\ (Contains(Unwrap(t.key), cluster_id_tag)
               \/ Contains(Unwrap(t.key), cluster_name_tag))
        /\ IsSome(t.value)
        /\ Unwrap(t.value) = "owned"

\* impl Collector for DefaultCollector: match_tag
DefaultCollector_match_tag(cluster_id, cluster_infra_name, t) ==
    LET cluster_id_tag == CLUSTER_TAG_PREFIX \o cluster_id
        cluster_name_tag == CLUSTER_TAG_PREFIX \o cluster_infra_name
    IN  /\ IsSome(t.key)
        /\ (Contains(Unwrap(t.key), cluster_id_tag)
               \/ Contains(Unwrap(t.key), cluster_name_tag))
        /\ IsSome(t.value)
        /\ (Unwrap(t.value) = "owned" \/ Unwrap(t.value) = "shared")

----------------------------------------------------------------------------
(* The gathering layer (src/src/gatherer/aws): what the AWS API answers is
   an input, Result<T, E> is a record of its kind and its payload, and a
   panic is a third kind of outcome. *)

Ok(x) == [kind |-> "Ok", value |-> x]
Err(x) == [kind |-> "Err", error |-> x]
Panicked(x) == [kind |-> "Panicked", message |-> x]
NotRun == [kind |-> "NotRun"]

DEFAULT_ROUTER_TAG_HYPERSHIFT == "kubernetes.io/service-name"
DEFAULT_ROUTER_VALUE_HYPERSHIFT == "openshift-ingress/router-default"

\* impl Collector for HypershiftCollector: match_tag
HypershiftCollector_match_tag(t) ==
    /\ IsSome(t.key) /\ Unwrap(t.key) = DEFAULT_ROUTER_TAG_HYPERSHIFT
    /\ IsSome(t.value) /\ Unwrap(t.value) = DEFAULT_ROUTER_VALUE_HYPERSHIFT

\* Faulty variant: a cluster without an infra name is taken for a hosted one.
select_collector_by_infra_name(ci) ==
    IF ci.cluster_type = "Hypershift" \/ ci.cluster_infra_name = ""
    THEN [variant |-> "HypershiftCollector"]
    ELSE [variant |-> "DefaultCollector", cluster_id |-> ci.cluster_id,
          cluster_infra_name |-> ci.cluster_infra_name]

\* The match on cluster_info.cluster_type that boxes the collector.
select_collector(ci) ==
    IF ci.cluster_type = "Hypershift"
    THEN [variant |-> "HypershiftCollector"]
    ELSE [variant |-> "DefaultCollector", cluster_id |-> ci.cluster_id,
          cluster_infra_name |-> ci.cluster_infra_name]

\* collector.match_tag(t) through the Collector trait object.
Collector_match_tag(collector, t) ==
    IF collector.variant = "HypershiftCollector"
    THEN HypershiftCollector_match_tag(t)
    ELSE DefaultCollector_match_tag(collector.cluster_id,
                                    collector.cluster_infra_name, t)

\* The pushes the tag loop makes for one load balancer: one per matching tag.
PushesFor(collector, lb_val, tags) ==
    Flatten([i \in 1..Len(tags) |->
                IF Collector_match_tag(collector, tags[i]) THEN <<lb_val>> ELSE <<>>])

\* The loop over the map of load balancers, walked in the given order; the
\* first describe_tags that fails ends the function with its error. What is
\* pushed is the LoadBalancer, or the classic description with the tags of
\* its tag description.
CollectClusterLbs(collector, order, describe_tags, classic) ==
    LET failing == {i \in 1..Len(order) : describe_tags[order[i]].kind = "Err"}
    IN  IF failing /= {}
        THEN describe_tags[order[CHOOSE i \in failing : \A j \in failing : i <= j]]
        ELSE Ok(Flatten([i \in 1..Len(order) |->
                    PushesFor(collector,
                              IF classic
                              THEN [load_balancer_name |-> Some(order[i]),
                                    tags |-> describe_tags[order[i]].value]
                              ELSE [load_balancer_arn |-> Some(order[i])],
                              describe_tags[order[i]].value)]))

\* The keys of the HashMap the described load balancers are inserted into.
LbKeys(described) == {described[i] : i \in 1..Len(described)}


\* get_load_balancers (ELBv2)
get_load_balancers(ci, responses, order) ==
    LET collector == select_collector(ci)
    IN  IF responses.describe_load_balancers.kind = "Err"
        THEN responses.describe_load_balancers
        ELSE CollectClusterLbs(collector, order, responses.describe_tags, FALSE)

\* get_classic_load_balancers (ELB)
get_classic_load_balancers(ci, responses, order) ==
    LET collector == select_collector(ci)
    IN  IF responses.describe_load_balancers.kind = "Err"
        THEN responses.describe_load_balancers
        ELSE CollectClusterLbs(collector, order, responses.describe_tags, TRUE)

\* describe_subnets with a filter: the subnets of the account passing it, or
\* the error of a call that fails.
DescribeSubnets(responses, call, passing) ==
    IF call \in responses.failing
    THEN Err("describe_subnets failed")
    ELSE Ok(passing)

\* ConfiguredSubnetGatherer::get_subnets_configured
get_subnets_configured(ci, responses) ==
    IF Len(ci.subnets) /= 0
    THEN DescribeSubnets(responses, "by_id",
             SelectSeq(responses.subnets,
                       LAMBDA s : VecContains(ci.subnets, Unwrap(s.subnet_id))))
    ELSE Ok(<<>>)

\* ConfiguredSubnetGatherer::get_subnets_by_tag
get_subnets_by_tag(ci, responses) ==
    LET cluster_name_tag == CLUSTER_TAG_PREFIX \o ci.cluster_infra_name
    IN  DescribeSubnets(responses, "by_tag",
            SelectSeq(responses.subnets,
                      LAMBDA s : \E i \in 1..Len(s.tags) :
                                     s.tags[i].key = Some(cluster_name_tag)))

\* ConfiguredSubnetGatherer::get_subnets_by_vpc
get_subnets_by_vpc(responses, vpcid) ==
    DescribeSubnets(responses, "by_vpc",
                    SelectSeq(responses.subnets, LAMBDA s : s.vpc_id = Some(vpcid)))

\* Itertools::unique_by(subnet_id): the first subnet of every id.
unique_by_subnet_id(subnets) ==
    LET first(i) == \A j \in 1..(i - 1) : subnets[j].subnet_id /= subnets[i].subnet_id
        kept == {i \in 1..Len(subnets) : first(i)}
        nth(k) == CHOOSE i \in kept : Cardinality({j \in kept : j < i}) = k - 1
    IN  [k \in 1..Cardinality(kept) |-> subnets[nth(k)]]

\* Vec::dedup: consecutive equal elements collapse into one.
dedup(xs) ==
    LET kept == {i \in 1..Len(xs) : i = 1 \/ xs[i] /= xs[i - 1]}
        nth(k) == CHOOSE i \in kept : Cardinality({j \in kept : j < i}) = k - 1
    IN  [k \in 1..Cardinality(kept) |-> xs[nth(k)]]

\* impl Gatherer for ConfiguredSubnetGatherer: gather
ConfiguredSubnetGatherer_gather(ci, responses) ==
    LET by_id == get_subnets_configured(ci, responses)
        by_tag == get_subnets_by_tag(ci, responses)
        \* the Err arms of both matches are empty
        associated == (IF by_id.kind = "Ok" THEN by_id.value ELSE <<>>)
                          \o (IF by_tag.kind = "Ok" THEN by_tag.value ELSE <<>>)
        vpc_ids == dedup([i \in 1..Len(associated) |-> Unwrap(associated[i].vpc_id)])
    IN  IF Len(vpc_ids) = 0
        THEN Panicked("unwrap on None")
        ELSE LET by_vpc == get_subnets_by_vpc(responses, vpc_ids[1])
             IN  IF by_vpc.kind = "Ok"
                 THEN Ok(unique_by_subnet_id(associated \o by_vpc.value))
                 ELSE by_vpc

\* get_subnets of the older gathering path (src/src/aws.rs)
get_subnets(ci, responses) ==
    IF Len(ci.subnets) /= 0
    THEN DescribeSubnets(responses, "by_id",
             SelectSeq(responses.subnets,
                       LAMBDA s : VecContains(ci.subnets, Unwrap(s.subnet_id))))
    ELSE get_subnets_by_tag(ci, responses)

\* get_all_subnets of the older gathering path (src/src/aws.rs)
get_all_subnets(ci, responses, configured) ==
    LET from_subnets == dedup([i \in 1..Len(configured) |->
                                  Unwrap(configured[i].vpc_id)])
        vpc_ids == IF Len(configured) > 0 THEN from_subnets
                   ELSE responses.owned_vpcs
    IN  IF Len(configured) = 0 /\ "vpcs" \in responses.failing
        THEN Panicked("could not retrieve VPCs by tag")
        ELSE IF Len(vpc_ids) /= 1
        THEN Err("Invalid number of VPCs found associated with cluster: "
                     \o ToString(Len(vpc_ids)))
        ELSE LET by_vpc == get_subnets_by_vpc(responses, vpc_ids[1])
             IN  IF by_vpc.kind = "Ok" THEN by_vpc
                 ELSE Panicked("unwrap on Err")

----------------------------------------------------------------------------
(* The gathered collections a ClusterNetwork is built from. *)

Subnet(id, az, vpc, tags) ==
    [subnet_id |-> Some(id), availability_zone |-> Some(az),
     vpc_id |-> Some(vpc), tags |-> tags]

Tag(k, v) == [key |-> Some(k), value |-> Some(v)]

Route(cidr, gateway, nat) ==
    [destination_cidr_block |-> Some(cidr), gateway_id |-> gateway,
     nat_gateway_id |-> nat, transit_gateway_id |-> None]

Association(sid) == [subnet_id |-> sid]

RouteTable(routes, associations) == [routes |-> routes, associations |-> associations]

ClusterInfo(id, infra, subnets) ==
    [cluster_id |-> id, cluster_infra_name |-> infra, cluster_type |-> "Osd",
     subnets |-> subnets]

SubnetId(i) == "subnet-" \o ToString(i)

LocalRoute == Route("10.0.0.0/16", Some("local"), None)
IgwRoute == Route(DefaultCidr, Some("igw-1"), None)
NatRoute == Route(DefaultCidr, None, Some("nat-1"))
VgwRoute == Route(DefaultCidr, Some("vgw-1"), None)

\* The route lists of the explored route tables: unset, empty, no default
\* route, a default route by internet gateway, by NAT gateway, by both, and
\* by a gateway that is neither.
RouteLists ==
    {None, Some(<<>>), Some(<<LocalRoute>>), Some(<<LocalRoute, IgwRoute>>),
     Some(<<LocalRoute, NatRoute>>), Some(<<IgwRoute, NatRoute>>), Some(<<VgwRoute>>)}

\* The association lists of the explored route tables over n subnets: unset,
\* one subnet, the main association (no subnet id) followed by the first
\* subnet, and the first two subnets.
AssociationLists(n) ==
    {None}
        \cup {Some(<<Association(Some(SubnetId(i)))>>) : i \in 1..n}
        \cup {Some(<<Association(None), Association(Some(SubnetId(1)))>>)}
        \cup {Some(<<Association(Some(SubnetId(1))), Association(Some(SubnetId(i)))>>) :
                 i \in 2..n}

TagUniverse ==
    {Tag(CLUSTER_TAG \o "c1-infra", "owned"),
     Tag(CLUSTER_TAG \o "other", "owned"),
     Tag(CLUSTER_TAG \o "other", "shared"),
     Tag(PRIVATE_ELB_TAG, "1"),
     Tag(PUBLIC_ELB_TAG, "1"),
     Tag("Name", "x")}

\* (vpc, zone) of the subnets of an input that varies them.
Groups == {<<"vpc-1", "us-east-1a">>, <<"vpc-1", "us-east-1b">>, <<"vpc-2", "us-east-1a">>}

ModernLoadBalancer(arn, zones) ==
    [kind |-> "ModernLoadBalancer", load_balancer_arn |-> Some(arn),
     availability_zones |-> zones, dns_name |-> Some(arn \o ".elb.amazonaws.com")]

ClassicLoadBalancer == 
    [kind |-> "ClassicLoadBalancer", load_balancer_arn |-> None,
     availability_zones |-> <<>>, dns_name |-> Some("classic.elb.amazonaws.com")]

Zone(name, sid) == [zone_name |-> Some(name), subnet_id |-> Some(sid)]

LoadBalancerChoices ==
    {ClassicLoadBalancer,
     ModernLoadBalancer("arn:lb-1", <<Zone("us-east-1a", SubnetId(1))>>),
     ModernLoadBalancer("arn:lb-2", <<Zone("us-east-1a", SubnetId(1)),
                                      Zone("us-east-1b", "subnet-9")>>),
     ModernLoadBalancer("arn:lb-3", <<Zone("us-east-1b", SubnetId(2))>>)}

Eni(id, sid) == [network_interface_id |-> Some(id), subnet_id |-> sid]

EniChoices ==
    {Eni("eni-1", Some(SubnetId(1))), Eni("eni-2", Some("subnet-9")), Eni("eni-3", None)}

AliasTarget(dns) == [dns_name |-> dns]

ResourceRecordSet(name, alias_target) == [name |-> name, alias_target |-> alias_target]

HostedZoneWithRecords(records) == [resource_records |-> records]

\* A load balancer of which only the DNS name matters.
NamedLoadBalancer(kind, dns_name) ==
    [kind |-> kind, load_balancer_arn |-> Some("arn:lb-dns"),
     availability_zones |-> <<>>, dns_name |-> dns_name]

LbA == NamedLoadBalancer("ModernLoadBalancer", Some("lb-a.elb.amazonaws.com"))
LbB == NamedLoadBalancer("ClassicLoadBalancer", Some("lb-b.elb.amazonaws.com"))
LbUnnamed == NamedLoadBalancer("ModernLoadBalancer", None)

ApiRecord == ResourceRecordSet("api.c1.example.com.",
                 Some(AliasTarget("dualstack.lb-a.elb.amazonaws.com.")))
AppsRecord == ResourceRecordSet("apps.c1.example.com.",
                  Some(AliasTarget("lb-a.elb.amazonaws.com.")))
OldRecord == ResourceRecordSet("old.c1.example.com.",
                 Some(AliasTarget("lb-old.elb.amazonaws.com.")))
TxtRecord == ResourceRecordSet("txt.c1.example.com.", None)

\* The record lists of a hosted zone.
ZoneChoices ==
    {HostedZoneWithRecords(<<TxtRecord>>),
     HostedZoneWithRecords(<<TxtRecord, ApiRecord>>),
     HostedZoneWithRecords(<<AppsRecord, OldRecord>>),
     HostedZoneWithRecords(<<OldRecord>>)}

\* The load balancer lists of an input that varies the hosted zones.
DnsLoadBalancerChoices ==
    {<<>>, <<LbA>>, <<LbB, LbA>>, <<LbUnnamed, LbA>>}

\* (cluster id, infra name) of the collector; "" is the default infra name.
CollectorNames == {<<"c1", "c1-infra">>, <<"c1", "">>, <<"zz", "c1-infra">>}

\* The keys and values of the tag handed to the collector.
CollectorKeys ==
    {None, Some("Name"), Some("kubernetes.io/cluster/c1"),
     Some("kubernetes.io/cluster/c1-infra"), Some("kubernetes.io/cluster/other"),
     Some("x/kubernetes.io/cluster/zz/y")}
CollectorValues == {None, Some("owned"), Some("shared"), Some("1")}

----------------------------------------------------------------------------
(* Construction. *)

\* ClusterNetworkBuilder::build: unset fields take their defaults, the index
\* is derived from the builder's fields.
Build(ci, subnets_opt, rtbs_opt, lbs, enis) ==
    /\ cluster_info = ci
    /\ all_subnets = (IF IsSome(subnets_opt) THEN Unwrap(subnets_opt) ELSE <<>>)
    /\ routetables = (IF IsSome(rtbs_opt) THEN Unwrap(rtbs_opt) ELSE <<>>)
    /\ subnet_routetable_mapping = derive_subnet_routetable_mapping(subnets_opt, rtbs_opt)
    /\ load_balancers = lbs
    /\ load_balancer_enis = enis
    /\ op = "built"
    /\ results = <<>>

\* Inputs that vary the number of subnets and the routes of each subnet's
\* own route table (a subnet may have none).
InitTopology ==
    \E n \in 1..MaxTopoSubnets :
        \E own \in [1..n -> {None} \cup {Some(r) : r \in RouteLists}] :
            Build(ClusterInfo("c1", "c1-infra", <<>>),
                  Some([i \in 1..n |->
                           Subnet(SubnetId(i), "us-east-1a", "vpc-1", <<Tag("Name", "x")>>)]),
                  Some(Flatten([i \in 1..n |->
                                   IF ~IsSome(own[i]) THEN <<>>
                                   ELSE <<RouteTable(Unwrap(own[i]),
                                             Some(<<Association(Some(SubnetId(i)))>>))>>])),
                  <<>>, <<>>)

\* Inputs that vary the route tables associated with two subnets.
InitAssociations ==
    \E rtbs \in SeqsUpTo({RouteTable(r, a) :
                             r \in {Some(<<LocalRoute>>), Some(<<LocalRoute, IgwRoute>>),
                                    Some(<<LocalRoute, NatRoute>>)},
                             a \in AssociationLists(2)},
                         MaxRouteTables) :
        \E rtbs_opt \in {Some(rtbs)} \cup (IF Len(rtbs) = 0 THEN {None} ELSE {}) :
            Build(ClusterInfo("c1", "c1-infra", <<>>),
                  Some(<<Subnet(SubnetId(1), "us-east-1a", "vpc-1", <<Tag("Name", "x")>>),
                         Subnet(SubnetId(2), "us-east-1a", "vpc-1", <<>>)>>),
                  rtbs_opt, <<>>, <<>>)

\* Inputs that vary the tags of one subnet, its classification and the
\* cluster's infra name.
InitTags ==
    \E tags \in SeqsUpTo(TagUniverse, MaxTags),
       infra \in {"", "c1-infra"},
       rtbs_opt \in {None, Some(<<>>)}
                        \cup {Some(<<RouteTable(r, Some(<<Association(Some(SubnetId(1)))>>))>>) :
                                 r \in {Some(<<LocalRoute, IgwRoute>>),
                                        Some(<<LocalRoute, NatRoute>>)}} :
        Build(ClusterInfo("c1", infra, <<SubnetId(1)>>),
              Some(<<Subnet(SubnetId(1), "us-east-1a", "vpc-1", tags)>>),
              rtbs_opt, <<>>, <<>>)

\* Inputs that vary the number of subnets and their vpc and zone.
InitCount ==
    \E gs \in SeqsUpTo(Groups, MaxCountSubnets) :
        \E subnets_opt \in {Some([i \in 1..Len(gs) |->
                                     Subnet(SubnetId(i), gs[i][2], gs[i][1], <<>>)])}
                               \cup (IF Len(gs) = 0 THEN {None} ELSE {}) :
            Build(ClusterInfo("c1", "c1-infra", <<>>), subnets_opt, None, <<>>, <<>>)

\* Inputs that vary the load balancers.
InitLoadBalancers ==
    \E lbs \in SeqsUpTo(LoadBalancerChoices, MaxLoadBalancers),
       configured \in {<<>>, <<SubnetId(1)>>, <<SubnetId(1), "subnet-9">>},
       enis \in {<<>>, <<Eni("eni-2", Some("subnet-9"))>>} :
        Build(ClusterInfo("c1", "c1-infra", configured),
              Some(<<Subnet(SubnetId(1), "us-east-1a", "vpc-1",
                            <<Tag(CLUSTER_TAG \o "c1-infra", "shared")>>),
                     Subnet(SubnetId(2), "us-east-1b", "vpc-1", <<>>)>>),
              None, lbs, enis)

\* Inputs that vary the network interfaces.
InitEnis ==
    \E enis \in SeqsUpTo(EniChoices, MaxEnis),
       configured \in {<<>>, <<SubnetId(1)>>, <<SubnetId(1), "subnet-9">>} :
        Build(ClusterInfo("c1", "c1-infra", configured),
              Some(<<Subnet(SubnetId(1), "us-east-1a", "vpc-1", <<>>),
                     Subnet(SubnetId(2), "us-east-1b", "vpc-1", <<>>)>>),
              None, <<>>, enis)

\* Inputs that vary the hosted zones and the DNS names of the load balancers.
InitHostedZones ==
    \E zones \in SeqsUpTo(ZoneChoices, MaxHostedZones),
       lbs \in DnsLoadBalancerChoices :
        /\ hosted_zones = zones
        /\ collector_tag = Tag("Name", "x")
        /\ Build(ClusterInfo("c1", "c1-infra", <<>>), None, None, lbs, <<>>)

\* The families above gather no hosted zone.
InitNetwork ==
    /\ hosted_zones = <<>>
    /\ collector_tag = Tag("Name", "x")
    /\ \/ InitTopology
       \/ InitAssociations
       \/ InitTags
       \/ InitCount
       \/ InitLoadBalancers
       \/ InitEnis

\* Inputs that vary the names of the cluster and the tag of a load balancer.
InitCollector ==
    \E names \in CollectorNames, key \in CollectorKeys, value \in CollectorValues :
        /\ hosted_zones = <<>>
        /\ collector_tag = [key |-> key, value |-> value]
        /\ Build(ClusterInfo(names[1], names[2], <<>>), None, None, <<>>, <<>>)

\* The answers of the AWS API to the calls of the gatherers.
Responses(described, tags, subnets, owned_vpcs, failing) ==
    [describe_load_balancers |-> described, describe_tags |-> tags,
     subnets |-> subnets, owned_vpcs |-> owned_vpcs, failing |-> failing]

NoResponses == Responses(Ok(<<>>), <<>>, <<>>, <<>>, {})

\* The tasks gather() spawns.
Tasks == {"h1", "h2", "h3", "h4"}

\* No gathering function has run and gather() was not called.
GatherIdle ==
    /\ gather_result = NotRun
    /\ task_pc = [t \in Tasks |-> "unspawned"]
    /\ gather_pc = "idle"
    /\ cluster_data = None

\* The checks run on a built object, without the gathering layer.
GatheringIdle == aws_responses = NoResponses /\ GatherIdle

Init ==
    /\ tag_matched = None
    /\ GatheringIdle
    /\ \/ InitNetwork
       \/ InitHostedZones
       \/ InitCollector

----------------------------------------------------------------------------
(* A caller runs a check on the built object. *)

inputs == <<cluster_info, all_subnets, routetables, subnet_routetable_mapping,
            load_balancers, load_balancer_enis, hosted_zones, collector_tag>>

\* The state of the gathering layer, which no check touches.
gathering == <<aws_responses, gather_result, task_pc, gather_pc, cluster_data>>

\* The orders the two hash maps may be iterated in.
MappingOrders == Orders(DOMAIN subnet_routetable_mapping)
CountOrders == Orders(DOMAIN subnets_per_az(all_subnets))

VerifyNumberOfSubnets ==
    /\ \E count_order \in CountOrders :
           results' = <<verify_number_of_subnets(all_subnets, count_order)>>
    /\ op' = "verify_number_of_subnets"
    /\ UNCHANGED <<inputs, tag_matched, gathering>>

VerifySubnetTags ==
    /\ \E order \in MappingOrders :
           results' = verify_subnet_tags(all_subnets, subnet_routetable_mapping,
                                         order, cluster_info)
    /\ op' = "verify_subnet_tags"
    /\ UNCHANGED <<inputs, tag_matched, gathering>>

VerifySubnetRoutetables ==
    /\ results' = verify_subnet_routetables(cluster_info)
    /\ op' = "verify_subnet_routetables"
    /\ UNCHANGED <<inputs, tag_matched, gathering>>

VerifyLoadbalancerSubnets ==
    /\ results' = verify_loadbalancer_subnets(cluster_info, all_subnets, load_balancers)
    /\ op' = "verify_loadbalancer_subnets"
    /\ UNCHANGED <<inputs, tag_matched, gathering>>

VerifyLoadbalancerEniSubnets ==
    /\ results' = verify_loadbalancer_eni_subnets(cluster_info, all_subnets,
                                                  load_balancer_enis)
    /\ op' = "verify_loadbalancer_eni_subnets"
    /\ UNCHANGED <<inputs, tag_matched, gathering>>

Verify ==
    /\ \E order \in MappingOrders, count_order \in CountOrders :
           results' = verify(cluster_info, all_subnets, subnet_routetable_mapping, order,
                             load_balancers, load_balancer_enis, count_order)
    /\ op' = "verify"
    /\ UNCHANGED <<inputs, tag_matched, gathering>>

VerifyNumberOfHostedZones ==
    /\ results' = <<verify_number_of_hosted_zones(hosted_zones)>>
    /\ op' = "verify_number_of_hosted_zones"
    /\ UNCHANGED <<inputs, tag_matched, gathering>>

VerifyLoadBalancersAreUsed ==
    /\ results' = verify_load_balancers_are_used(hosted_zones, load_balancers)
    /\ op' = "verify_load_balancers_are_used"
    /\ UNCHANGED <<inputs, tag_matched, gathering>>

VerifyOnlyKnownLoadBalancersAreUsed ==
    /\ results' = verify_only_known_load_balancers_are_used(hosted_zones, load_balancers)
    /\ op' = "verify_only_known_load_balancers_are_used"
    /\ UNCHANGED <<inputs, tag_matched, gathering>>

HostedZoneChecksVerify ==
    /\ results' = hosted_zone_checks_verify(hosted_zones, load_balancers)
    /\ op' = "hosted_zone_checks_verify"
    /\ UNCHANGED <<inputs, tag_matched, gathering>>

\* collector.match_tag(t) of a default collector made from cluster_info.
MatchTag ==
    /\ tag_matched' = Some(DefaultCollector_match_tag(cluster_info.cluster_id,
                               cluster_info.cluster_infra_name, collector_tag))
    /\ UNCHANGED <<inputs, op, results, gathering>>

Next ==
    \/ VerifyNumberOfSubnets
    \/ VerifySubnetTags
    \/ VerifySubnetRoutetables
    \/ VerifyLoadbalancerSubnets
    \/ VerifyLoadbalancerEniSubnets
    \/ Verify
    \/ VerifyNumberOfHostedZones
    \/ VerifyLoadBalancersAreUsed
    \/ VerifyOnlyKnownLoadBalancersAreUsed
    \/ HostedZoneChecksVerify
    \/ MatchTag

Spec == Init /\ [][Next]_vars

----------------------------------------------------------------------------
(* The gathering functions, run against the answers of the AWS API. *)

\* The load balancers of the account, by ARN (ELBv2) or name (ELB).
RemoteLbKeys == <<"lb-1", "lb-2", "lb-3", "lb-4">>

\* The tag lists describe_tags may answer for a load balancer.
RemoteTagLists ==
    {<<>>,
     <<Tag("Name", "x")>>,
     <<Tag(CLUSTER_TAG_PREFIX \o "c1", "owned")>>,
     <<Tag(CLUSTER_TAG_PREFIX \o "c1", "owned"),
       Tag(CLUSTER_TAG_PREFIX \o "c1-infra", "owned")>>,
     <<Tag(DEFAULT_ROUTER_TAG_HYPERSHIFT, DEFAULT_ROUTER_VALUE_HYPERSHIFT)>>,
     <<Tag(DEFAULT_ROUTER_TAG_HYPERSHIFT \o "-x", DEFAULT_ROUTER_VALUE_HYPERSHIFT)>>,
     <<Tag(DEFAULT_ROUTER_TAG_HYPERSHIFT, DEFAULT_ROUTER_VALUE_HYPERSHIFT \o "-x")>>,
     <<Tag(CLUSTER_TAG_PREFIX \o "c1-infra", "shared"),
       Tag(DEFAULT_ROUTER_TAG_HYPERSHIFT, DEFAULT_ROUTER_VALUE_HYPERSHIFT)>>}

\* The subnets an account may hold: tagged for the cluster or not, in one
\* of two VPCs.
RemoteSubnetChoices ==
    {Subnet(SubnetId(1), "us-east-1a", "vpc-1",
            <<Tag(CLUSTER_TAG_PREFIX \o "c1-infra", "owned")>>),
     Subnet(SubnetId(2), "us-east-1a", "vpc-2",
            <<Tag(CLUSTER_TAG_PREFIX \o "c1-infra", "shared")>>),
     Subnet(SubnetId(3), "us-east-1b", "vpc-1", <<>>),
     Subnet(SubnetId(4), "us-east-1b", "vpc-2", <<>>)}

\* No check has run and no tag was handed to a collector.
ChecksIdle(ci) ==
    /\ tag_matched = None
    /\ hosted_zones = <<>>
    /\ collector_tag = Tag("Name", "x")
    /\ Build(ci, None, None, <<>>, <<>>)

\* A cluster of every type against an account with tagged load balancers.
InitRemoteLoadBalancers ==
    \E type \in {"Osd", "Rosa", "Hypershift"}, names \in CollectorNames, n \in 0..MaxRemoteLoadBalancers :
        \E tags \in [{RemoteLbKeys[i] : i \in 1..n} ->
                        {Err("describe_tags failed")} \cup {Ok(ts) : ts \in RemoteTagLists}],
           described \in {Ok(SubSeq(RemoteLbKeys, 1, n))}
                             \cup (IF n = 0 THEN {Err("describe_load_balancers failed")}
                                   ELSE {}) :
            /\ ChecksIdle([ClusterInfo(names[1], names[2], <<>>)
                               EXCEPT !.cluster_type = type])
            /\ aws_responses = Responses(described, tags, <<>>, <<>>, {})
            /\ GatherIdle

\* A cluster with or without configured subnets against an account with
\* subnets in up to two VPCs, and calls that fail.
InitRemoteSubnets ==
    \E subnets \in {q \in SeqsUpTo(RemoteSubnetChoices, MaxRemoteSubnets) :
                        \A i, j \in 1..Len(q) : i /= j => q[i] /= q[j]},
       configured \in {<<>>, <<SubnetId(3)>>, <<SubnetId(3), SubnetId(4)>>},
       owned_vpcs \in {<<>>, <<"vpc-1">>, <<"vpc-1", "vpc-2">>},
       failing \in SUBSET {"by_id", "by_tag", "by_vpc", "vpcs"} :
        /\ ChecksIdle(ClusterInfo("c1", "c1-infra", configured))
        /\ aws_responses = Responses(Ok(<<>>), <<>>, subnets, owned_vpcs, failing)
        /\ GatherIdle

CollectInit == InitRemoteLoadBalancers \/ InitRemoteSubnets

\* What no gathering function touches.
collect_frame == <<inputs, tag_matched, results, aws_responses,
                   task_pc, gather_pc, cluster_data>>

\* The orders the map of described load balancers may be iterated in.
LbOrders ==
    IF aws_responses.describe_load_balancers.kind = "Ok"
    THEN Orders(LbKeys(aws_responses.describe_load_balancers.value))
    ELSE {<<>>}

GetLoadBalancers ==
    /\ \E order \in LbOrders :
           gather_result' = get_load_balancers(cluster_info, aws_responses, order)
    /\ op' = "get_load_balancers"
    /\ UNCHANGED collect_frame

GetClassicLoadBalancers ==
    /\ \E order \in LbOrders :
           gather_result' = get_classic_load_balancers(cluster_info, aws_responses, order)
    /\ op' = "get_classic_load_balancers"
    /\ UNCHANGED collect_frame

ConfiguredSubnetGathererGather ==
    /\ gather_result' = ConfiguredSubnetGatherer_gather(cluster_info, aws_responses)
    /\ op' = "ConfiguredSubnetGatherer::gather"
    /\ UNCHANGED collect_frame

\* get_all_subnets on the subnets get_subnets returned.
GetAllSubnets ==
    /\ get_subnets(cluster_info, aws_responses).kind = "Ok"
    /\ gather_result' = get_all_subnets(cluster_info, aws_responses,
                                        get_subnets(cluster_info, aws_responses).value)
    /\ op' = "get_all_subnets"
    /\ UNCHANGED collect_frame

CollectNext ==
    \/ GetLoadBalancers
    \/ GetClassicLoadBalancers
    \/ ConfiguredSubnetGathererGather
    \/ GetAllSubnets

CollectSpec == CollectInit /\ [][CollectNext]_vars

----------------------------------------------------------------------------
(* gather() of src/src/gatherer/aws.rs: four spawned tasks, each a chain of
   fetches that panics at the first one that fails, joined in turn. *)

\* The fetches of each task, in the order the task makes them.
TaskSteps ==
    [h1 |-> <<"load_balancers", "classic_load_balancers", "enis">>,
     h2 |-> <<"subnets", "routetables">>,
     h3 |-> <<"instances">>,
     h4 |-> <<"hosted_zones", "resource_records">>]

\* The handle spawned, and awaited, after that of task t.
NextTask(t) == CASE t = "h1" -> "h2" [] t = "h2" -> "h3" [] t = "h3" -> "h4" [] OTHER -> "h1"

\* Whether a fetch returns Ok: the subnets and the classic load balancers by
\* their gatherers, the others by the call they make.
FetchSucceeds(step) ==
    CASE step = "subnets" ->
             ConfiguredSubnetGatherer_gather(cluster_info, aws_responses).kind = "Ok"
      [] step = "classic_load_balancers" ->
             get_classic_load_balancers(cluster_info, aws_responses, <<>>).kind = "Ok"
      [] OTHER -> step \notin aws_responses.failing

\* Where a task is after the fetch it is at: expect() panics on an Err.
AfterFetch(t, step) ==
    LET steps == TaskSteps[t]
        i == CHOOSE k \in 1..Len(steps) : steps[k] = step
    IN  IF ~FetchSucceeds(step) THEN "panicked"
        ELSE IF i = Len(steps) THEN "done"
        ELSE steps[i + 1]

\* Faulty variant: the JoinError of a panicked task is dropped.
join_ignoring_panic(handle_pc, next) == next

\* h.await.unwrap(): the JoinError of a panicked task panics gather().
join_unwrap(handle_pc, next) == IF handle_pc = "done" THEN next ELSE "panicked"

\* The struct gather() returns; the gatherers of the collections left empty
\* are outside the model.
AWSClusterData ==
    [subnets |-> ConfiguredSubnetGatherer_gather(cluster_info, aws_responses).value,
     routetables |-> <<>>,
     load_balancers |-> get_classic_load_balancers(cluster_info, aws_responses, <<>>).value,
     load_balancer_enis |-> <<>>,
     instances |-> <<>>,
     hosted_zones |-> <<>>]

\* A cluster against an account without load balancers, with one tagged and
\* one untagged subnet, where up to MaxFailingCalls calls fail.
GatherInit ==
    \E configured \in {<<>>, <<SubnetId(3)>>},
       failing \in {f \in SUBSET {"by_id", "by_tag", "by_vpc", "load_balancers",
                                  "classic_load_balancers", "enis", "routetables",
                                  "instances", "hosted_zones", "resource_records"} :
                       Cardinality(f) <= MaxFailingCalls} :
        /\ ChecksIdle(ClusterInfo("c1", "c1-infra", configured))
        /\ aws_responses =
               Responses(IF "classic_load_balancers" \in failing
                         THEN Err("describe_load_balancers failed") ELSE Ok(<<>>),
                         <<>>,
                         <<Subnet(SubnetId(1), "us-east-1a", "vpc-1",
                                  <<Tag(CLUSTER_TAG_PREFIX \o "c1-infra", "owned")>>),
                           Subnet(SubnetId(3), "us-east-1b", "vpc-1", <<>>)>>,
                         <<>>, failing)
        /\ GatherIdle

\* What gather() and its tasks leave alone.
gather_frame == <<inputs, tag_matched, op, results, aws_responses, gather_result>>

\* gather() is called: the configuration is loaded and the clients are made.
CallGather ==
    /\ gather_pc = "idle"
    /\ gather_pc' = "spawn_h1"
    /\ UNCHANGED <<gather_frame, task_pc, cluster_data>>

\* tokio::spawn of the next task.
Spawn ==
    \E t \in Tasks :
        /\ gather_pc = "spawn_" \o t
        /\ task_pc' = [task_pc EXCEPT ![t] = TaskSteps[t][1]]
        /\ gather_pc' = (IF t = "h4" THEN "await_h1" ELSE "spawn_" \o NextTask(t))
        /\ UNCHANGED <<gather_frame, cluster_data>>

\* A spawned task makes its next fetch.
TaskStep ==
    \E t \in Tasks :
        /\ task_pc[t] \notin {"unspawned", "done", "panicked"}
        /\ task_pc' = [task_pc EXCEPT ![t] = AfterFetch(t, task_pc[t])]
        /\ UNCHANGED <<gather_frame, gather_pc, cluster_data>>

\* hN.await.unwrap(), once the task has ended.
Await ==
    \E t \in Tasks :
        /\ gather_pc = "await_" \o t
        /\ task_pc[t] \in {"done", "panicked"}
        /\ gather_pc' = join_unwrap(task_pc[t],
                             IF t = "h4" THEN "construct" ELSE "await_" \o NextTask(t))
        /\ UNCHANGED <<gather_frame, task_pc, cluster_data>>

\* The struct is built from the four results and returned.
Construct ==
    /\ gather_pc = "construct"
    /\ cluster_data' = Some(AWSClusterData)
    /\ gather_pc' = "returned"
    /\ UNCHANGED <<gather_frame, task_pc>>

GatherNext ==
    \/ CallGather
    \/ Spawn
    \/ TaskStep
    \/ Await
    \/ Construct

GatherSpec == GatherInit /\ [][GatherNext]_vars

----------------------------------------------------------------------------
(* Vocabulary of the properties below, stated on the gathered collections *)
(* and on the returned results, not on the operators of the checks.       *)

HasResult(r) == \E i \in 1..Len(results) : results[i] = r

CountResult(r) == Cardinality({i \in 1..Len(results) : results[i] = r})

RoutesOf(rtb) == IF rtb.routes = None THEN <<>> ELSE rtb.routes[1]

IsDefaultRoute(r) == r.destination_cidr_block = Some(DefaultCidr)

\* No default route at all, or a default route whose NAT gateway id is set.
PrivateRule(rtb) ==
    \/ \A i \in 1..Len(RoutesOf(rtb)) : ~IsDefaultRoute(RoutesOf(rtb)[i])
    \/ \E i \in 1..Len(RoutesOf(rtb)) :
           IsDefaultRoute(RoutesOf(rtb)[i]) /\ RoutesOf(rtb)[i].nat_gateway_id /= None

\* A default route whose gateway id begins with igw-.
PublicRule(rtb) ==
    \E i \in 1..Len(RoutesOf(rtb)) :
        /\ IsDefaultRoute(RoutesOf(rtb)[i])
        /\ RoutesOf(rtb)[i].gateway_id /= None
        /\ StartsWith(RoutesOf(rtb)[i].gateway_id[1], "igw-")

ClassifiedPrivate(sid, order) ==
    VecContains(get_private_subnets(subnet_routetable_mapping, order), sid)

ClassifiedPublic(sid, order) ==
    VecContains(get_public_subnets(subnet_routetable_mapping, order), sid)

SubnetIdAt(i) == all_subnets[i].subnet_id[1]

HasTagKeyContaining(i, pat) ==
    \E t \in 1..Len(all_subnets[i].tags) :
        /\ all_subnets[i].tags[t].key /= None
        /\ Contains(all_subnets[i].tags[t].key[1], pat)

\* C1: every subnet of the association index is classified private if and
\* only if its route table has no default route, or a default route whose
\* NAT gateway id is set, in whatever order the index is iterated.
C1_PrivateRule ==
    \A order \in MappingOrders :
        \A sid \in DOMAIN subnet_routetable_mapping :
            ClassifiedPrivate(sid, order) <=> PrivateRule(subnet_routetable_mapping[sid])

\* C2: every subnet of the association index is classified public if and
\* only if its route table has a default route whose gateway id begins
\* with igw-.
C2_PublicRule ==
    \A order \in MappingOrders :
        \A sid \in DOMAIN subnet_routetable_mapping :
            ClassifiedPublic(sid, order) <=> PublicRule(subnet_routetable_mapping[sid])

\* A check has read the classification of an index that holds a public
\* subnet and a subnet whose default route goes by a gateway that is no
\* internet gateway.
C2_Witness ==
    /\ op = "verify_subnet_tags"
    /\ \E s1, s2 \in DOMAIN subnet_routetable_mapping :
           /\ \A order \in MappingOrders : ClassifiedPublic(s1, order)
           /\ \A order \in MappingOrders : ~ClassifiedPublic(s2, order)
           /\ subnet_routetable_mapping[s2].routes = Some(<<VgwRoute>>)

\* C3: the index maps the id of each subnet to the first route table, in
\* input order, whose associations reference it; the id is a key if and
\* only if some route table references it; nothing else is a key.
C3_AssociationIndex ==
    /\ \A i \in 1..Len(all_subnets) :
           LET sid == all_subnets[i].subnet_id
               refs == {j \in 1..Len(routetables) : References(routetables[j], sid)}
           IN  /\ (sid[1] \in DOMAIN subnet_routetable_mapping) <=> (refs /= {})
               /\ refs /= {} =>
                      \E j \in refs :
                          /\ \A k \in refs : j <= k
                          /\ subnet_routetable_mapping[sid[1]] = routetables[j]
    /\ \A key \in DOMAIN subnet_routetable_mapping :
           \E i \in 1..Len(all_subnets) : all_subnets[i].subnet_id = Some(key)

\* One subnet is referenced by two different route tables and keeps the
\* first; the other subnet is referenced by none and is no key.
C3_Witness ==
    /\ op = "built"
    /\ Len(routetables) = 2
    /\ routetables[1] /= routetables[2]
    /\ References(routetables[1], Some(SubnetId(1)))
    /\ References(routetables[2], Some(SubnetId(1)))
    /\ DOMAIN subnet_routetable_mapping = {SubnetId(1)}
    /\ subnet_routetable_mapping[SubnetId(1)] = routetables[1]
    /\ Len(all_subnets) = 2

\* C4: verify returns the result of verify_number_of_subnets, then those of
\* verify_loadbalancer_subnets, of verify_subnet_tags and of
\* verify_loadbalancer_eni_subnets, and nothing else.
C4_VerifyOrder ==
    op = "verify" =>
        \E order \in MappingOrders, count_order \in CountOrders :
            results =
                <<verify_number_of_subnets(all_subnets, count_order)>>
                    \o verify_loadbalancer_subnets(cluster_info, all_subnets, load_balancers)
                    \o verify_subnet_tags(all_subnets, subnet_routetable_mapping, order,
                                          cluster_info)
                    \o verify_loadbalancer_eni_subnets(cluster_info, all_subnets,
                                                       load_balancer_enis)

\* verify has returned a load-balancer Warning, tag findings and a network
\* interface Warning, all of them different.
C4_Witness ==
    /\ op = "verify"
    /\ Len(results) >= 4
    /\ results[2].severity = "Warning"
    /\ Contains(results[2].message, "LoadBalancer arn:lb-2")
    /\ \E i \in 3..Len(results) : Contains(results[i].message, "is missing private ELB tag")
    /\ results[Len(results)].severity = "Warning"
    /\ Contains(results[Len(results)].message, "LoadBalancer ENI eni-2")

\* C5: for fixed inputs verify returns the same list whatever the order the
\* hash maps are iterated in, and so do the two classifications.
C5_Deterministic ==
    op = "verify" =>
        /\ \A order \in MappingOrders, count_order \in CountOrders :
               results = verify(cluster_info, all_subnets, subnet_routetable_mapping,
                                order, load_balancers, load_balancer_enis, count_order)
        /\ \A o1, o2 \in MappingOrders :
               \A sid \in DOMAIN subnet_routetable_mapping :
                   /\ ClassifiedPrivate(sid, o1) <=> ClassifiedPrivate(sid, o2)
                   /\ ClassifiedPublic(sid, o1) <=> ClassifiedPublic(sid, o2)

\* C6: no check returns an empty list of results.
C6_NeverEmpty == op /= "built" => Len(results) >= 1

\* The number of subnets of a (vpc, zone) group.
GroupSize(g) ==
    Cardinality({i \in 1..Len(all_subnets) :
                    /\ all_subnets[i].vpc_id = Some(g[1])
                    /\ all_subnets[i].availability_zone = Some(g[2])})

\* C7: verify_number_of_subnets returns one result; it is a Warning if and
\* only if some (vpc, zone) group has more than 2 subnets, and then names
\* exactly the groups with more than 2 subnets; otherwise it is an Ok.
C7_NumberOfSubnets ==
    op = "verify_number_of_subnets" =>
        LET offending == {g \in Groups : GroupSize(g) > 2}
        IN  /\ Len(results) = 1
            /\ results[1].severity = (IF offending = {} THEN "Ok" ELSE "Warning")
            /\ \A g \in Groups :
                   Contains(results[1].message, g[1] \o " (AZ: " \o g[2] \o ")")
                       <=> g \in offending

\* Two groups have more than 2 subnets, a third has fewer, and the check
\* has returned its Warning.
C7_Witness ==
    /\ op = "verify_number_of_subnets"
    /\ Cardinality({g \in Groups : GroupSize(g) > 2}) = 2
    /\ \E g \in Groups : GroupSize(g) = 0
    /\ results[1].severity = "Warning"

\* The results of the run agree with iterating the index in this order.
RanWith(order) ==
    results = verify_subnet_tags(all_subnets, subnet_routetable_mapping, order, cluster_info)

\* C8: verify_subnet_tags emits the missing private ELB tag Info for a
\* subnet exactly when it is classified private and has no tag whose key
\* contains the private role tag, and the missing public ELB tag Info
\* exactly when it is classified public and has no tag whose key contains
\* the public role tag.
C8_RoleTagFindings ==
    op = "verify_subnet_tags" =>
        \E order \in MappingOrders :
            /\ RanWith(order)
            /\ \A i \in 1..Len(all_subnets) :
                   /\ HasResult(Result("Info", MissingPrivateElbTagMessage(SubnetIdAt(i))))
                          <=> (ClassifiedPrivate(SubnetIdAt(i), order)
                                   /\ ~HasTagKeyContaining(i, PRIVATE_ELB_TAG))
                   /\ HasResult(Result("Info", MissingPublicElbTagMessage(SubnetIdAt(i))))
                          <=> (ClassifiedPublic(SubnetIdAt(i), order)
                                   /\ ~HasTagKeyContaining(i, PUBLIC_ELB_TAG))

\* C9: for a subnet with no tags verify_subnet_tags emits one
\* missing-cluster-tag result, never an Ok, and, when the subnet is
\* classified private or public but not both, the one role-tag result of
\* its classification and not the other.
C9_UntaggedSubnet ==
    op = "verify_subnet_tags" =>
        \E order \in MappingOrders :
            /\ RanWith(order)
            /\ \A i \in 1..Len(all_subnets) :
                   Len(all_subnets[i].tags) = 0 =>
                       LET sid == SubnetIdAt(i)
                           private == ClassifiedPrivate(sid, order)
                           public == ClassifiedPublic(sid, order)
                       IN  /\ CountResult(Result("Info",
                                  MissingClusterTagMessage(sid, cluster_info))) = 1
                           /\ ~HasResult(Result("Ok", SubnetOkMessage(sid)))
                           /\ private /= public =>
                                  /\ CountResult(Result("Info",
                                         MissingPrivateElbTagMessage(sid)))
                                         = (IF private THEN 1 ELSE 0)
                                  /\ CountResult(Result("Info",
                                         MissingPublicElbTagMessage(sid)))
                                         = (IF public THEN 1 ELSE 0)

\* C10: verify_subnet_tags emits the missing-cluster-tag Info for a subnet
\* exactly when no tag of the subnet has a key containing
\* kubernetes.io/cluster/, once, and its message names the subnet id and
\* the tag kubernetes.io/cluster/<infra-name>.
C10_MissingClusterTag ==
    op = "verify_subnet_tags" =>
        \A i \in 1..Len(all_subnets) :
            LET expected ==
                    Result("Info",
                        "Subnet " \o SubnetIdAt(i) \o " is missing cluster tag: "
                            \o "kubernetes.io/cluster/" \o cluster_info.cluster_infra_name)
                about == {j \in 1..Len(results) :
                             Contains(results[j].message,
                                 "Subnet " \o SubnetIdAt(i) \o " is missing cluster tag")}
            IN  /\ (about /= {}) <=> ~HasTagKeyContaining(i, "kubernetes.io/cluster/")
                /\ Cardinality(about) <= 1
                /\ \A j \in about : results[j] = expected

\* A subnet that carries only another cluster's shared tag gets no
\* missing-cluster-tag result, under a non-empty infra name.
C10_Witness ==
    /\ op = "verify_subnet_tags"
    /\ cluster_info.cluster_infra_name = "c1-infra"
    /\ Len(all_subnets) = 1
    /\ all_subnets[1].tags = <<Tag(CLUSTER_TAG \o "other", "shared")>>
    /\ \A j \in 1..Len(results) : ~Contains(results[j].message, "is missing cluster tag")

\* The results whose message is about the subnet at index i.
AboutSubnet(i) ==
    {j \in 1..Len(results) :
        StartsWith(results[j].message, "Subnet " \o SubnetIdAt(i) \o " ")}

\* The key is kubernetes.io/cluster/<other-id> with other-id neither the
\* cluster id nor the infra name.
ForeignClusterKey(key) ==
    /\ StartsWith(key, "kubernetes.io/cluster/")
    /\ key /= "kubernetes.io/cluster/" \o cluster_info.cluster_id
    /\ key /= "kubernetes.io/cluster/" \o cluster_info.cluster_infra_name

\* The tags of the subnet at index i whose key contains kubernetes.io/cluster/.
ClusterTagsOf(i) ==
    {t \in 1..Len(all_subnets[i].tags) :
        /\ all_subnets[i].tags[t].key /= None
        /\ Contains(all_subnets[i].tags[t].key[1], "kubernetes.io/cluster/")}

\* Every role tag the classification of the subnet asks for is present.
RoleTagsInOrder(i, order) ==
    /\ ClassifiedPrivate(SubnetIdAt(i), order) => HasTagKeyContaining(i, PRIVATE_ELB_TAG)
    /\ ClassifiedPublic(SubnetIdAt(i), order) => HasTagKeyContaining(i, PUBLIC_ELB_TAG)

\* C11: for a subnet that carries a tag kubernetes.io/cluster/<other-id>
\* with value owned, other-id being neither the cluster id nor the infra
\* name, verify_subnet_tags emits exactly one Critical result for that
\* subnet, and its message contains the key of the tag.
C11_ForeignOwnedTag ==
    op = "verify_subnet_tags" =>
        \A i \in 1..Len(all_subnets) :
            \A t \in 1..Len(all_subnets[i].tags) :
                LET tag == all_subnets[i].tags[t]
                    critical == {j \in AboutSubnet(i) : results[j].severity = "Critical"}
                IN  (/\ tag.key /= None
                     /\ ForeignClusterKey(tag.key[1])
                     /\ tag.value = Some("owned"))
                        => /\ Cardinality(critical) = 1
                           /\ \A j \in critical : Contains(results[j].message, tag.key[1])

\* C12: for a subnet whose cluster tags are all tags of other clusters with
\* value shared, verify_subnet_tags emits no Critical result, and emits the
\* Ok result of the subnet when the role tags its classification asks for
\* are present.
C12_ForeignSharedTolerated ==
    op = "verify_subnet_tags" =>
        \E order \in MappingOrders :
            /\ RanWith(order)
            /\ \A i \in 1..Len(all_subnets) :
                   (/\ ClusterTagsOf(i) /= {}
                    /\ \A t \in ClusterTagsOf(i) :
                           /\ ForeignClusterKey(all_subnets[i].tags[t].key[1])
                           /\ all_subnets[i].tags[t].value = Some("shared"))
                       => /\ \A j \in AboutSubnet(i) : results[j].severity /= "Critical"
                          /\ RoleTagsInOrder(i, order)
                                 => HasResult(Result("Ok", SubnetOkMessage(SubnetIdAt(i))))

\* A private subnet that carries another cluster's shared tag and its role
\* tag got the Ok result, under an infra name that differs from the tag.
C12_Witness ==
    /\ op = "verify_subnet_tags"
    /\ cluster_info.cluster_infra_name = "c1-infra"
    /\ Len(all_subnets) = 1
    /\ all_subnets[1].tags = <<Tag(CLUSTER_TAG \o "other", "shared"), Tag(PRIVATE_ELB_TAG, "1")>>
    /\ \E order \in MappingOrders : ClassifiedPrivate(SubnetIdAt(1), order)
    /\ results = <<Result("Ok", SubnetOkMessage(SubnetIdAt(1)))>>

\* The message is one of the four findings of verify_subnet_tags.
IsTagFinding(msg) ==
    \/ Contains(msg, " is missing cluster tag: ")
    \/ Contains(msg, " is using incorrect cluster tag: ")
    \/ Contains(msg, " is missing private ELB tag")
    \/ Contains(msg, " is missing public ELB tag")

\* C13: every result of verify_subnet_tags is about one subnet of
\* all_subnets, every subnet has at least one result, the results follow
\* the order of all_subnets, and a subnet has the Ok result exactly when it
\* has none of the four findings.
C13_OkOrFindings ==
    op = "verify_subnet_tags" =>
        /\ \A i \in 1..Len(all_subnets) : AboutSubnet(i) /= {}
        /\ \A j \in 1..Len(results) : \E i \in 1..Len(all_subnets) : j \in AboutSubnet(i)
        /\ \A i1, i2 \in 1..Len(all_subnets) :
               \A j1 \in AboutSubnet(i1), j2 \in AboutSubnet(i2) :
                   j1 < j2 => i1 <= i2
        /\ \A i \in 1..Len(all_subnets) :
               /\ \A j \in AboutSubnet(i) :
                      \/ results[j] = Result("Ok", SubnetOkMessage(SubnetIdAt(i)))
                      \/ IsTagFinding(results[j].message)
               /\ HasResult(Result("Ok", SubnetOkMessage(SubnetIdAt(i))))
                      <=> ~\E j \in AboutSubnet(i) : IsTagFinding(results[j].message)

\* Two subnets were checked: the first got the Ok result alone, the second
\* got findings and no Ok, after the result of the first.
C13_Witness ==
    /\ op = "verify_subnet_tags"
    /\ Len(all_subnets) = 2
    /\ AboutSubnet(1) = {1}
    /\ results[1].severity = "Ok"
    /\ Cardinality(AboutSubnet(2)) >= 2
    /\ \A j \in AboutSubnet(2) : IsTagFinding(results[j].message)

\* The ids of the gathered subnets.
GatheredSubnetIds == {SubnetIdAt(i) : i \in 1..Len(all_subnets)}

\* The subnet ids the cluster lists as its own.
ListedSubnetIds == {cluster_info.subnets[k] : k \in 1..Len(cluster_info.subnets)}

\* The ids of the gathered subnets the cluster lists as its own.
ConfiguredSubnetIds ==
    {sid \in GatheredSubnetIds : \E k \in 1..Len(cluster_info.subnets) :
                                     cluster_info.subnets[k] = sid}

\* The bindings <<load balancer, zone>> of modern load balancers to a
\* subnet outside the set S.
BindingsOutside(S) ==
    {b \in UNION {{<<i, k>> : k \in 1..Len(load_balancers[i].availability_zones)} :
                      i \in 1..Len(load_balancers)} :
        /\ load_balancers[b[1]].kind = "ModernLoadBalancer"
        /\ load_balancers[b[1]].availability_zones[b[2]].subnet_id[1] \notin S}

\* The results are one Warning for each binding outside S, naming the load
\* balancer and the subnet, or the single Ok when there is no such binding.
WarnsExactlyOutside(S) ==
    IF BindingsOutside(S) = {}
    THEN results = <<Result("Ok", "LoadBalancer subnet associations are correct")>>
    ELSE /\ Len(results) = Cardinality(BindingsOutside(S))
         /\ \A j \in 1..Len(results) : results[j].severity = "Warning"
         /\ \A b \in BindingsOutside(S) :
                \E j \in 1..Len(results) :
                    /\ Contains(results[j].message,
                           load_balancers[b[1]].load_balancer_arn[1])
                    /\ Contains(results[j].message,
                           load_balancers[b[1]].availability_zones[b[2]].subnet_id[1])

\* C14: for a cluster with a configured subnet list,
\* verify_loadbalancer_subnets returns one Warning for each binding of a
\* modern load balancer to a subnet that is not a configured subnet, none
\* for a binding to a configured subnet, and a single Ok when no binding is
\* flagged; classic load balancers contribute nothing.
C14_LoadBalancerSubnets ==
    (op = "verify_loadbalancer_subnets" /\ Len(cluster_info.subnets) > 0)
        => WarnsExactlyOutside(ListedSubnetIds)

\* C15: when cluster_info.subnets is empty verify_loadbalancer_subnets
\* returns exactly one Ok result and no Warning, whatever the load
\* balancers and subnets.
C15_SkippedWhenUnconfigured ==
    (op = "verify_loadbalancer_subnets" /\ Len(cluster_info.subnets) = 0)
        => /\ Len(results) = 1
           /\ results[1].severity = "Ok"

\* C15, amended: when cluster_info.subnets is empty every gathered subnet
\* counts as configured: verify_loadbalancer_subnets returns one Warning
\* for each binding of a modern load balancer to a subnet that was not
\* gathered, and the single Ok when there is none.
C15_AllGatheredWhenUnconfigured ==
    (op = "verify_loadbalancer_subnets" /\ Len(cluster_info.subnets) = 0)
        => WarnsExactlyOutside(GatheredSubnetIds)

\* A cluster without configured subnets was checked with a load balancer
\* bound to a gathered subnet and to one that was not gathered: one Warning.
C15_Witness ==
    /\ op = "verify_loadbalancer_subnets"
    /\ Len(cluster_info.subnets) = 0
    /\ Len(load_balancers) = 1
    /\ load_balancers[1].load_balancer_arn = Some("arn:lb-2")
    /\ Len(results) = 1
    /\ results[1].severity = "Warning"
    /\ Contains(results[1].message, "subnet-9")

\* The set verify_loadbalancer_eni_subnets compares the subnet of a network
\* interface with: the configured subnets, every gathered subnet when the
\* cluster configures none.
EniSubnetSet ==
    IF Len(cluster_info.subnets) = 0 THEN GatheredSubnetIds ELSE ConfiguredSubnetIds

\* C16: verify_loadbalancer_eni_subnets returns a single Critical when
\* there is no network interface; otherwise its results are one per
\* network interface, in input order: a Warning when the subnet of the
\* interface is outside the configured set, an Ok when it is inside.
C16_EniSubnets ==
    op = "verify_loadbalancer_eni_subnets" =>
        IF Len(load_balancer_enis) = 0
        THEN results = <<Result("Critical", "No ENIs found")>>
        ELSE /\ Len(results) = Len(load_balancer_enis)
             /\ \A i \in 1..Len(load_balancer_enis) :
                    /\ Contains(results[i].message,
                           load_balancer_enis[i].network_interface_id[1])
                    /\ load_balancer_enis[i].subnet_id /= None =>
                           results[i].severity =
                               (IF load_balancer_enis[i].subnet_id[1] \in EniSubnetSet
                                THEN "Ok" ELSE "Warning")

\* The alias records of the hosted zones, zone after zone.
AliasRecords ==
    SelectSeq(Flatten([i \in 1..Len(hosted_zones) |-> hosted_zones[i].resource_records]),
              LAMBDA r : r.alias_target /= None)

\* The DNS names of the load balancers that have one.
KnownDnsNames ==
    {load_balancers[i].dns_name[1] :
        i \in {k \in 1..Len(load_balancers) : load_balancers[k].dns_name /= None}}

\* C17: verify_number_of_hosted_zones returns one result: for n hosted
\* zones a Critical "too few" when n is 0 or 1, an Ok when n is 2, a
\* Critical "too many" when n exceeds 2; the Critical message ends with n.
C17_NumberOfHostedZones ==
    op = "verify_number_of_hosted_zones" =>
        /\ Len(results) = 1
        /\ LET n == Len(hosted_zones)
               r == results[1]
           IN  /\ n \in {0, 1} => r = Result("Critical",
                                         "Too few hosted zones found: " \o ToString(n))
               /\ n = 2 => r.severity = "Ok"
               /\ n > 2 => r = Result("Critical",
                                   "Too many hosted zones found: " \o ToString(n))

\* More than two hosted zones were counted.
C17_Witness ==
    /\ op = "verify_number_of_hosted_zones"
    /\ Len(hosted_zones) = 3
    /\ results = <<Result("Critical", "Too many hosted zones found: 3")>>

\* C18: verify_load_balancers_are_used returns one result per load
\* balancer, in order: the Ok that names the first alias record whose
\* target contains the DNS name of the load balancer when there is such a
\* record, a Warning otherwise; a load balancer without a DNS name has no
\* such record.
C18_LoadBalancersAreUsed ==
    op = "verify_load_balancers_are_used" =>
        /\ Len(results) = Len(load_balancers)
        /\ \A i \in 1..Len(load_balancers) :
               LET using ==
                       IF load_balancers[i].dns_name = None THEN <<>>
                       ELSE SelectSeq(AliasRecords,
                                LAMBDA r : Contains(r.alias_target[1].dns_name,
                                                    load_balancers[i].dns_name[1]))
               IN  IF Len(using) > 0
                   THEN /\ results[i].severity = "Ok"
                        /\ Contains(results[i].message,
                               load_balancers[i].dns_name[1] \o " is used in record "
                                   \o using[1].name)
                   ELSE results[i].severity = "Warning"

\* C19: verify_only_known_load_balancers_are_used returns one Warning for
\* each alias record whose target contains the DNS name of no known load
\* balancer, in record order, and nothing else: records without an alias
\* target and records whose target contains a known DNS name get none.
C19_OnlyKnownLoadBalancers ==
    op = "verify_only_known_load_balancers_are_used" =>
        LET stale == SelectSeq(AliasRecords,
                         LAMBDA r : \A dns \in KnownDnsNames :
                                        ~Contains(r.alias_target[1].dns_name, dns))
        IN  /\ Len(results) = Len(stale)
            /\ \A j \in 1..Len(stale) :
                   /\ results[j].severity = "Warning"
                   /\ Contains(results[j].message, "'" \o stale[j].name \o "'")
                   /\ Contains(results[j].message, stale[j].alias_target[1].dns_name)

\* C20: the match_tag of the default collector returns true if and only if
\* the tag has a key that contains kubernetes.io/cluster/<cluster-id> or
\* kubernetes.io/cluster/<infra-name> and a value that is owned or shared;
\* a tag without key or without value is not matched.
C20_DefaultCollectorMatch ==
    tag_matched /= None =>
        (tag_matched[1] <=>
            /\ collector_tag.key /= None
            /\ collector_tag.value /= None
            /\ \/ Contains(collector_tag.key[1],
                      "kubernetes.io/cluster/" \o cluster_info.cluster_id)
               \/ Contains(collector_tag.key[1],
                      "kubernetes.io/cluster/" \o cluster_info.cluster_infra_name)
            /\ collector_tag.value[1] \in {"owned", "shared"})

\* A tag with value shared whose key holds the cluster tag of the cluster
\* id in its middle was matched.
C20_Witness ==
    /\ tag_matched = Some(TRUE)
    /\ cluster_info.cluster_id = "zz"
    /\ collector_tag = Tag("x/kubernetes.io/cluster/zz/y", "shared")

Reordered(p) == [i \in 1..Len(p) |-> all_subnets[p[i]]]

\* C26: for every permutation of all_subnets verify_number_of_subnets
\* returns the result it returned for all_subnets, severity and message.
C26_OrderInsensitive ==
    op = "verify_number_of_subnets" =>
        \A p \in Orders(1..Len(all_subnets)) :
            \A count_order \in Orders(DOMAIN subnets_per_az(Reordered(p))) :
                verify_number_of_subnets(Reordered(p), count_order) = results[1]

\* C27: a subnet whose route table has a default route by an internet
\* gateway and a default route by a NAT gateway is classified public and
\* private, whatever the other entries of the index and the order they are
\* visited in.
C27_BothClassifications ==
    op = "verify_subnet_tags" =>
        \A order \in MappingOrders :
            \A sid \in DOMAIN subnet_routetable_mapping :
                LET routes == RoutesOf(subnet_routetable_mapping[sid])
                IN  (/\ \E i \in 1..Len(routes) :
                            /\ IsDefaultRoute(routes[i])
                            /\ routes[i].gateway_id /= None
                            /\ StartsWith(routes[i].gateway_id[1], "igw-")
                     /\ \E i \in 1..Len(routes) :
                            /\ IsDefaultRoute(routes[i])
                            /\ routes[i].nat_gateway_id /= None)
                        => /\ ClassifiedPublic(sid, order)
                           /\ ClassifiedPrivate(sid, order)

\* C29: the match_tag of the default collector does not match a tag
\* kubernetes.io/cluster/<x> with value owned or shared when x is neither
\* the cluster id nor the infra name.
C29_ForeignTagNotMatched ==
    (/\ tag_matched /= None
     /\ collector_tag.key /= None
     /\ ForeignClusterKey(collector_tag.key[1])
     /\ collector_tag.value \in {Some("owned"), Some("shared")})
        => tag_matched = Some(FALSE)

\* C30: every Warning of verify_loadbalancer_subnets is about a binding of
\* a modern load balancer: it names the ARN of the load balancer, the
\* subnet id of the binding as the subnet and its zone name as the AZ.
C30_WarningNamesBinding ==
    op = "verify_loadbalancer_subnets" =>
        \A j \in 1..Len(results) :
            results[j].severity = "Warning" =>
                \E i \in 1..Len(load_balancers) :
                    \E k \in 1..Len(load_balancers[i].availability_zones) :
                        LET az == load_balancers[i].availability_zones[k]
                        IN  /\ load_balancers[i].kind = "ModernLoadBalancer"
                            /\ Contains(results[j].message,
                                   "LoadBalancer " \o load_balancers[i].load_balancer_arn[1]
                                       \o " is using subnet " \o az.subnet_id[1] \o " ")
                            /\ Contains(results[j].message,
                                   "(AZ: " \o az.zone_name[1] \o ")")


----------------------------------------------------------------------------
(* The gathering functions. *)

GatheredLoadBalancers == op \in {"get_load_balancers", "get_classic_load_balancers"}

\* The ARN (ELBv2) or name (ELB) of a returned load balancer.
KeyOf(lb_val) ==
    IF op = "get_load_balancers" THEN Unwrap(lb_val.load_balancer_arn)
    ELSE Unwrap(lb_val.load_balancer_name)

ReturnedKeys == {KeyOf(gather_result.value[i]) : i \in 1..Len(gather_result.value)}

DescribedKeys == LbKeys(aws_responses.describe_load_balancers.value)

TagsOf(k) == aws_responses.describe_tags[k].value

\* The strict variant, and the one the cluster type calls for.
StrictMatch(t) ==
    /\ t.key = Some("kubernetes.io/service-name")
    /\ t.value = Some("openshift-ingress/router-default")
ExpectedMatch(t) ==
    IF cluster_info.cluster_type = "Hypershift" THEN StrictMatch(t)
    ELSE DefaultCollector_match_tag(cluster_info.cluster_id,
                                    cluster_info.cluster_infra_name, t)

\* C21: a load-balancer gathering run returns exactly the load balancers
\* with a tag matched by the variant of the cluster type: the strict variant
\* (key exactly kubernetes.io/service-name, value exactly
\* openshift-ingress/router-default) for Hypershift, variant B for Osd and
\* Rosa, whatever the cluster id, the infra name and the tags are.
C21_CollectorByClusterType ==
    (GatheredLoadBalancers /\ gather_result.kind = "Ok") =>
        \A k \in DescribedKeys :
            k \in ReturnedKeys <=> \E i \in 1..Len(TagsOf(k)) : ExpectedMatch(TagsOf(k)[i])

\* A Hypershift cluster without infra name got the load balancer with the
\* reserved tag and not the one carrying only a cluster tag.
C21_Witness ==
    /\ op = "get_load_balancers" /\ gather_result.kind = "Ok"
    /\ cluster_info.cluster_type = "Hypershift"
    /\ cluster_info.cluster_infra_name = ""
    /\ \E k \in DescribedKeys : k \in ReturnedKeys
    /\ \E k \in DescribedKeys :
           /\ k \notin ReturnedKeys
           /\ \E i \in 1..Len(TagsOf(k)) :
                  DefaultCollector_match_tag(cluster_info.cluster_id,
                                             cluster_info.cluster_infra_name, TagsOf(k)[i])

\* C28: the list get_load_balancers and get_classic_load_balancers return
\* holds each load balancer at most once.
C28_EachLoadBalancerOnce ==
    (GatheredLoadBalancers /\ gather_result.kind = "Ok") =>
        \A i, j \in 1..Len(gather_result.value) :
            i /= j => KeyOf(gather_result.value[i]) /= KeyOf(gather_result.value[j])

\* The subnets of the account associated with the cluster: configured by id
\* or carrying the cluster tag.
AssociatedSubnets ==
    {aws_responses.subnets[i] : i \in
        {j \in 1..Len(aws_responses.subnets) :
            \/ VecContains(cluster_info.subnets, Unwrap(aws_responses.subnets[j].subnet_id))
            \/ \E t \in 1..Len(aws_responses.subnets[j].tags) :
                   aws_responses.subnets[j].tags[t].key
                       = Some("kubernetes.io/cluster/" \o cluster_info.cluster_infra_name)}}

AssociatedVpcs == {s.vpc_id : s \in AssociatedSubnets}

\* C23: when every call succeeds and the subnets associated with the
\* cluster lie in more than one VPC, ConfiguredSubnetGatherer::gather returns
\* an error and no subnet list.
C23_SeveralVpcsRejected ==
    (/\ op = "ConfiguredSubnetGatherer::gather"
     /\ aws_responses.failing = {}
     /\ Cardinality(AssociatedVpcs) > 1)
        => gather_result.kind = "Err"

\* C24: when fetching the configured subnets by id or the subnets by cluster
\* tag fails, ConfiguredSubnetGatherer::gather returns no subnet list.
C24_FailedFetchNoList ==
    (/\ op = "ConfiguredSubnetGatherer::gather"
     /\ \/ "by_id" \in aws_responses.failing /\ Len(cluster_info.subnets) > 0
        \/ "by_tag" \in aws_responses.failing)
        => gather_result.kind /= "Ok"


----------------------------------------------------------------------------
(* gather(). *)

\* C22: in every interleaving of the four tasks, gather() has built and
\* returned an AWSClusterData only when all four tasks ended without
\* failing; when a task failed there is no AWSClusterData and gather() did
\* not return.
C22_AllOrNothing ==
    /\ cluster_data /= None => \A t \in Tasks : task_pc[t] = "done"
    /\ gather_pc = "returned" <=> cluster_data /= None
    /\ (\E t \in Tasks : task_pc[t] = "panicked")
           => (cluster_data = None /\ gather_pc \notin {"construct", "returned"})

\* gather() panicked on the handle of the last task, which failed at its
\* second fetch after the other three had ended well.
C22_Witness ==
    /\ gather_pc = "panicked" /\ cluster_data = None
    /\ task_pc["h4"] = "panicked" /\ "resource_records" \in aws_responses.failing
    /\ \A t \in Tasks \ {"h4"} : task_pc[t] = "done"

====
